---- MODULE Spec2Model ----
(***************************************************************************)
(* Model of BISlotExtractor (src/main.py): the token refresh, the data     *)
(* request and the normalisation of the origin's records.                  *)
(*                                                                         *)
(* Python strings are sequences of one-character strings, so that upper(), *)
(* strip(), len() and the substring test are computed, not assumed.  JSON  *)
(* values are records [t, n, s, l, m]: t is the type tag, n the number,    *)
(* s the characters of a string, l the elements of a list and m the        *)
(* (key, value) pairs of a mapping in iteration order.                     *)
(***************************************************************************)
EXTENDS Integers, Sequences, FiniteSets, TLC

\* ------------------------------------------------------------------ bounds
MaxFields == 3
MaxSlots == 2
MaxItems == 2
MaxQuota == 2
MaxCalls == 2

\* ----------------------------------------------------------------- strings
RECURSIVE Rep(_, _)
Rep(c, n) == IF n = 0 THEN <<>> ELSE <<c>> \o Rep(c, n - 1)

LowerToUpper ==
  [c \in {"a","b","c","d","e","f","g","h","i","j","k","l","m",
          "n","o","p","q","r","s","t","u","v","w","x","y","z"} |->
     CASE c = "a" -> "A" [] c = "b" -> "B" [] c = "c" -> "C" [] c = "d" -> "D"
       [] c = "e" -> "E" [] c = "f" -> "F" [] c = "g" -> "G" [] c = "h" -> "H"
       [] c = "i" -> "I" [] c = "j" -> "J" [] c = "k" -> "K" [] c = "l" -> "L"
       [] c = "m" -> "M" [] c = "n" -> "N" [] c = "o" -> "O" [] c = "p" -> "P"
       [] c = "q" -> "Q" [] c = "r" -> "R" [] c = "s" -> "S" [] c = "t" -> "T"
       [] c = "u" -> "U" [] c = "v" -> "V" [] c = "w" -> "W" [] c = "x" -> "X"
       [] c = "y" -> "Y" [] c = "z" -> "Z"]

\* str.upper()
Upper(v) ==
  [i \in 1..Len(v) |-> IF v[i] \in DOMAIN LowerToUpper THEN LowerToUpper[v[i]] ELSE v[i]]

\* `sub in v` for strings
Contains(v, sub) ==
  \E i \in 0..(Len(v) - Len(sub)) : \A j \in 1..Len(sub) : v[i + j] = sub[j]

Whitespace == {" ", "\t", "\n"}

RECURSIVE LStrip(_)
LStrip(v) == IF v # <<>> /\ Head(v) \in Whitespace THEN LStrip(Tail(v)) ELSE v

RECURSIVE RStrip(_)
RStrip(v) ==
  IF v # <<>> /\ v[Len(v)] \in Whitespace THEN RStrip(SubSeq(v, 1, Len(v) - 1)) ELSE v

\* str.strip()
Strip(v) == RStrip(LStrip(v))

NA == <<"N", "/", "A">>
WIB == <<"W", "I", "B">>
WITA == <<"W", "I", "T", "A">>
WIT == <<"W", "I", "T">>
TimeZones == <<WIB, WITA, WIT>>
IdLen == 36
Hyphen == <<"-">>

\* any(tz in v.upper() for tz in ["WIB", "WITA", "WIT"])
IsTime(v) == \E i \in 1..Len(TimeZones) : Contains(Upper(v), TimeZones[i])

\* len(v) == 36 and "-" in v
IsIdent(v) == Len(v) = IdLen /\ Contains(v, Hyphen)

\* ------------------------------------------------------------- JSON values
JNull == [t |-> "null", n |-> 0, s |-> <<>>, l |-> <<>>, m |-> <<>>]
JNum(k) == [t |-> "num", n |-> k, s |-> <<>>, l |-> <<>>, m |-> <<>>]
JStr(v) == [t |-> "str", n |-> 0, s |-> v, l |-> <<>>, m |-> <<>>]
JList(xs) == [t |-> "list", n |-> 0, s |-> <<>>, l |-> xs, m |-> <<>>]
JMap(kvs) == [t |-> "map", n |-> 0, s |-> <<>>, l |-> <<>>, m |-> kvs]

HasKey(d, key) == \E i \in 1..Len(d.m) : d.m[i][1] = key

\* dict.get(key, default) on a mapping
Get(d, key, default) ==
  IF HasKey(d, key) THEN d.m[CHOOSE i \in 1..Len(d.m) : d.m[i][1] = key][2] ELSE default

\* what `for x in value` visits; null and numbers are not iterable
Iterable(x) == x.t \in {"list", "str", "map"}

IterElems(x) ==
  CASE x.t = "list" -> x.l
    [] x.t = "str" -> [i \in 1..Len(x.s) |-> JStr(<<x.s[i]>>)]
    [] x.t = "map" -> [i \in 1..Len(x.m) |-> JStr(x.m[i][1])]
    [] OTHER -> <<>>

\* field names the code looks up
kData == <<"d","a","t","a">>
kSlotList == <<"S","l","o","t","L","i","s","t">>
kSisaQuota == <<"S","i","s","a","Q","u","o","t","a">>
kLokasi == <<"L","o","k","a","s","i">>
kKaskelId == <<"K","a","s","k","e","l","I","d">>
kOpenDate == <<"O","p","e","n","D","a","t","e","T","o","S","t","r","i","n","g">>

\* ------------------------------------------------------------ process_data
\* faulty variant of ScanField: the identifier test comes first
ScanFieldIdentFirst(acc, v) ==
  IF v.t = "str"
  THEN IF IsIdent(v.s) THEN [acc EXCEPT !.w_id = v.s]
       ELSE IF IsTime(v.s) THEN [acc EXCEPT !.w_text = Strip(v.s)]
       ELSE acc
  ELSE acc

\* faulty variant of ScanField: finding a time value forgets the identifier
ScanFieldReset(acc, v) ==
  IF v.t = "str"
  THEN IF IsTime(v.s) THEN [acc EXCEPT !.w_text = Strip(v.s), !.w_id = NA]
       ELSE IF IsIdent(v.s) THEN [acc EXCEPT !.w_id = v.s]
       ELSE acc
  ELSE acc

\* one pass of `for k, v in s.items()`: the body of the loop
ScanField(acc, v) ==
  IF v.t = "str"
  THEN IF IsTime(v.s) THEN [acc EXCEPT !.w_text = Strip(v.s)]
       ELSE IF IsIdent(v.s) THEN [acc EXCEPT !.w_id = v.s]
       ELSE acc
  ELSE acc

RECURSIVE ScanFields(_, _)
ScanFields(fields, acc) ==
  IF fields = <<>> THEN acc
  ELSE ScanFields(Tail(fields), ScanField(acc, Head(fields)[2]))

\* faulty variant of AddQuota: only emitted records are counted
AddQuotaEmittedOnly(total, sisa, w_text) == IF w_text # NA THEN total + sisa.n ELSE total

\* total_lokasi += sisa
AddQuota(total, sisa, w_text) == total + sisa.n

\* faulty variant of EmitSlot: every record is emitted
EmitSlotAlways(w_text) == TRUE

\* if w_text != "N/A"
EmitSlot(w_text) == w_text # NA

Raised == [raised |-> TRUE, value |-> <<>>]
Returned(v) == [raised |-> FALSE, value |-> v]

\* the body of `for s in item.get("SlotList", [])`, over the remaining records
RECURSIVE SlotLoop(_, _, _)
SlotLoop(elems, slots, total) ==
  IF elems = <<>> THEN [raised |-> FALSE, slots |-> slots, total |-> total]
  ELSE LET s == Head(elems) IN
       IF s.t # "map" THEN [raised |-> TRUE, slots |-> <<>>, total |-> 0]
       ELSE LET acc == ScanFields(s.m, [w_id |-> NA, w_text |-> NA])
                sisa == Get(s, kSisaQuota, JNum(0))
            IN IF sisa.t # "num" THEN [raised |-> TRUE, slots |-> <<>>, total |-> 0]
               ELSE SlotLoop(Tail(elems),
                             IF EmitSlot(acc.w_text)
                             THEN Append(slots, [waktu |-> acc.w_text, sisa |-> sisa.n,
                                                 waktu_id |-> acc.w_id])
                             ELSE slots,
                             AddQuota(total, sisa, acc.w_text))

\* the body of `for item in data`, over the remaining items
RECURSIVE ItemLoop(_, _)
ItemLoop(items, processed) ==
  IF items = <<>> THEN Returned(processed)
  ELSE LET item == Head(items) IN
       IF item.t # "map" THEN Raised
       ELSE LET sl == Get(item, kSlotList, JList(<<>>)) IN
            IF ~Iterable(sl) THEN Raised
            ELSE LET r == SlotLoop(IterElems(sl), <<>>, 0) IN
                 IF r.raised THEN Raised
                 ELSE ItemLoop(Tail(items),
                               IF r.slots # <<>>
                               THEN Append(processed,
                                           [lokasi |-> Get(item, kLokasi, JStr(NA)),
                                            kaskel_id |-> Get(item, kKaskelId, JStr(NA)),
                                            tanggal |-> Get(item, kOpenDate, JStr(NA)),
                                            total |-> r.total,
                                            slots |-> r.slots])
                               ELSE processed)

\* process_data applied to what get_all_data returned
Normalize(data) == IF ~Iterable(data) THEN Raised ELSE ItemLoop(IterElems(data), <<>>)

\* ------------------------------------------------------------ get_all_data
\* r.json().get("data", []) inside try/except: what the POST's response yields
ResponseData(b) ==
  IF b.kind = "json" /\ b.json.t = "map" THEN Get(b.json, kData, JList(<<>>))
  ELSE JList(<<>>)

\* faulty variant of NeedsRefresh: every call refreshes
NeedsRefreshAlways(tok) == TRUE

\* `not self.token`
NeedsRefresh(tok) == tok = ""

\* faulty variant of TokenAfterRefresh: the fetched token is not stored
TokenAfterRefreshKeep(tok, outcome) == tok

\* refresh_token: the value of self.token after the GET's outcome
TokenAfterRefresh(tok, outcome) == IF outcome.kind = "token" THEN outcome.token ELSE tok

\* faulty variant of RefreshReturns: failure is reported as success
RefreshReturnsAlways(outcome) == TRUE

\* refresh_token: its return value
RefreshReturns(outcome) == outcome.kind = "token"

\* ------------------------------------------------- what the origin can send
Tokens == {"T1", "T2"}
NoOutcome == [kind |-> "none", token |-> ""]
GetOutcomes ==
  {[kind |-> "exc", token |-> ""], [kind |-> "nomatch", token |-> ""]}
    \cup {[kind |-> "token", token |-> t] : t \in Tokens}

TimeA == <<"0","8",":","0","0"," ","W","I","B">>
TimeB == <<" ","9"," ","w","i","t","a"," ">>
Uuid1 == Rep("1", 8) \o Hyphen \o Rep("1", 4) \o Hyphen \o Rep("1", 4) \o Hyphen
           \o Rep("1", 4) \o Hyphen \o Rep("1", 12)
Uuid2 == Rep("2", 8) \o Hyphen \o Rep("2", 4) \o Hyphen \o Rep("2", 4) \o Hyphen
           \o Rep("2", 4) \o Hyphen \o Rep("2", 12)
IdTz == WIB \o Hyphen \o Rep("3", 32)
Long36 == Rep("4", 36)
Short == <<"n","o","-","t","i","m","e">>

kWaktu == <<"W","a","k","t","u">>
kJam == <<"J","a","m">>
kId == <<"I","d">>
kKode == <<"K","o","d","e">>
kOther == <<"O","t","h","e","r">>

Fields ==
  {<<kSisaQuota, JNum(q)>> : q \in 1..MaxQuota}
    \cup {<<kSisaQuota, JStr(Short)>>,
          <<kWaktu, JStr(TimeA)>>, <<kJam, JStr(TimeB)>>,
          <<kId, JStr(Uuid1)>>, <<kId, JStr(IdTz)>>,
          <<kKode, JStr(Uuid2)>>, <<kKode, JStr(Long36)>>,
          <<kOther, JStr(Short)>>, <<kOther, JNum(7)>>}

SeqsUpTo(S, n) == UNION {[1..k -> S] : k \in 0..n}

DistinctKeys(fs) == \A i, j \in 1..Len(fs) : i # j => fs[i][1] # fs[j][1]

\* Raw Slot Records: mappings of at most MaxFields fields
Records == {JMap(fs) : fs \in {x \in SeqsUpTo(Fields, MaxFields) : DistinctKeys(x)}}

MetaA == <<<<kLokasi, JStr(<<"A">>)>>, <<kKaskelId, JStr(<<"K","1">>)>>,
           <<kOpenDate, JStr(<<"D","1">>)>>>>
MetaB == <<<<kLokasi, JStr(<<"B">>)>>>>

Location(meta, slotList) == JMap(meta \o <<<<kSlotList, slotList>>>>)

SimpleRecords ==
  {JMap(<<<<kSisaQuota, JNum(MaxQuota)>>, <<kWaktu, JStr(TimeA)>>, <<kId, JStr(Uuid1)>>>>),
   JMap(<<<<kJam, JStr(TimeB)>>>>)}
    \cup {JMap(<<<<kSisaQuota, JNum(q)>>, <<kOther, JStr(Short)>>>>) : q \in 0..MaxQuota}

SlotLists ==
  {JList(rs) : rs \in SeqsUpTo(SimpleRecords, MaxSlots)} \cup {JNull, JStr(Short)}

SmallItems ==
  {Location(MetaA, JList(<<JMap(<<<<kSisaQuota, JNum(1)>>, <<kWaktu, JStr(TimeA)>>>>)>>)),
   Location(MetaB, JList(<<JMap(<<<<kSisaQuota, JNum(MaxQuota)>>, <<kOther, JStr(Short)>>>>)>>)),
   JMap(<<<<kSlotList, JList(<<JMap(<<<<kJam, JStr(TimeB)>>>>)>>)>>>>),
   Location(MetaB, JList(<<JMap(<<<<kSisaQuota, JNull>>, <<kWaktu, JStr(TimeA)>>>>)>>)),
   JNum(1)}

\* the values the response's `data` field can hold
DataValues ==
  {JList(<<Location(MetaA, JList(<<r>>))>>) : r \in Records}
    \cup {JList(<<Location(meta, sl)>>) : meta \in {MetaA, <<>>}, sl \in SlotLists}
    \cup {JList(<<JMap(MetaA)>>)}
    \cup {JList(items) : items \in SeqsUpTo(SmallItems, MaxItems)}
    \cup {JNull, JNum(1), JStr(<<>>), JStr(Short), JMap(<<>>), JMap(MetaB)}

NoBody == [kind |-> "none", json |-> JNull]
Bodies ==
  {[kind |-> "exc", json |-> JNull], [kind |-> "text", json |-> JNull]}
    \cup {[kind |-> "json", json |-> j] :
            j \in {JList(<<>>), JNum(1), JNull, JMap(<<>>), JMap(<<<<kOther, JNum(7)>>>>)}}
    \cup {[kind |-> "json", json |-> JMap(<<<<kData, d>>>>)] : d \in DataValues}

\* ------------------------------------------------------------------- state
VARIABLES token, pc, calls, reqs, tokenAtCall, prevGet, lastGet, body, raw, result

vars == <<token, pc, calls, reqs, tokenAtCall, prevGet, lastGet, body, raw, result>>

Pending == [raised |-> FALSE, value |-> <<>>, done |-> FALSE]
Finished(r) == [raised |-> r.raised, value |-> r.value, done |-> TRUE]

GetReq == [m |-> "GET", token |-> ""]
PostReq(tok) == [m |-> "POST", token |-> tok]

\* BISlotExtractor.__init__
Init ==
  /\ token = ""
  /\ pc = "idle"
  /\ calls = 0
  /\ reqs = <<>>
  /\ tokenAtCall = ""
  /\ prevGet = NoOutcome
  /\ lastGet = NoOutcome
  /\ body = NoBody
  /\ raw = JList(<<>>)
  /\ result = Pending

\* process_data is entered; get_all_data tests the stored token and sends the
\* first request of the call
Call ==
  /\ pc \in {"idle", "done"}
  /\ calls < MaxCalls
  /\ calls' = calls + 1
  /\ tokenAtCall' = token
  /\ prevGet' = lastGet
  /\ lastGet' = NoOutcome
  /\ body' = NoBody
  /\ raw' = JList(<<>>)
  /\ result' = Pending
  /\ IF NeedsRefresh(token)
     THEN pc' = "get" /\ reqs' = <<GetReq>>
     ELSE pc' = "post" /\ reqs' = <<PostReq(token)>>
  /\ UNCHANGED token

\* refresh_token gets the GET's outcome; on failure get_all_data returns []
\* and process_data normalises it, on success the POST is sent
RefreshToken ==
  /\ pc = "get"
  /\ \E outcome \in GetOutcomes :
       /\ lastGet' = outcome
       /\ token' = TokenAfterRefresh(token, outcome)
       /\ IF RefreshReturns(outcome)
          THEN /\ pc' = "post"
               /\ reqs' = Append(reqs, PostReq(token'))
               /\ UNCHANGED <<raw, result>>
          ELSE /\ pc' = "done"
               /\ raw' = JList(<<>>)
               /\ result' = Finished(Normalize(raw'))
               /\ UNCHANGED reqs
  /\ UNCHANGED <<calls, tokenAtCall, prevGet, body>>

\* the POST's response arrives; get_all_data returns and process_data
\* normalises what it returned
PostResponse ==
  /\ pc = "post"
  /\ \E b \in Bodies :
       /\ body' = b
       /\ raw' = ResponseData(b)
       /\ result' = Finished(Normalize(raw'))
  /\ pc' = "done"
  /\ UNCHANGED <<token, calls, reqs, tokenAtCall, prevGet, lastGet>>

Next == Call \/ RefreshToken \/ PostResponse

Spec == Init /\ [][Next]_vars

\* ------------------------------------------------------------------- types
TypeOK ==
  /\ token \in Tokens \cup {""}
  /\ pc \in {"idle", "get", "post", "done"}
  /\ calls \in 0..MaxCalls

\* ------------------------------------------------------- vocabulary of the claims
RefreshFailed(o) == o.kind \in {"exc", "nomatch"}
PostDone == pc = "done" /\ body.kind # "none"
EmptyResult == Finished(Returned(<<>>))

\* the string-typed values of a Raw Slot Record
StrValues(s) == {s.m[i][2].s : i \in {j \in 1..Len(s.m) : s.m[j][2].t = "str"}}
HasTimeValue(s) == s.t = "map" /\ \E v \in StrValues(s) : IsTime(v)

\* the Raw Slot Records of a raw location
SlotRecords(item) ==
  IF item.t = "map" THEN IterElems(Get(item, kSlotList, JList(<<>>))) ELSE <<>>
LocHasTime(item) ==
  \E j \in 1..Len(SlotRecords(item)) : HasTimeValue(SlotRecords(item)[j])

\* the quota of a record, 0 when the field is absent
QuotaOf(s) == IF s.t = "map" THEN Get(s, kSisaQuota, JNum(0)).n ELSE 0
RECURSIVE SumQuota(_)
SumQuota(rs) == IF rs = <<>> THEN 0 ELSE QuotaOf(Head(rs)) + SumQuota(Tail(rs))

RECURSIVE SumSisa(_)
SumSisa(slots) == IF slots = <<>> THEN 0 ELSE Head(slots).sisa + SumSisa(Tail(slots))

\* indices of the raw locations (records) that have a time value, in order
KeptLocsOf(items) ==
  SelectSeq([i \in 1..Len(items) |-> i], LAMBDA i : LocHasTime(items[i]))
KeptRecs(item) ==
  SelectSeq([i \in 1..Len(SlotRecords(item)) |-> i],
            LAMBDA i : HasTimeValue(SlotRecords(item)[i]))

RawItems == IterElems(raw)
KeptLocs == KeptLocsOf(RawItems)

\* the (Normalized Slot, Raw Slot Record) pairs of the returned entries
SlotPairs ==
  UNION {LET item == RawItems[KeptLocs[k]]
             recs == SlotRecords(item)
             kept == KeptRecs(item)
             slots == result.value[k].slots
         IN {<<slots[j], recs[kept[j]]>> : j \in 1..(IF Len(slots) < Len(kept) THEN Len(slots) ELSE Len(kept))}
         : k \in 1..(IF Len(result.value) < Len(KeptLocs) THEN Len(result.value) ELSE Len(KeptLocs))}

Returns == PostDone /\ ~result.raised

\* ------------------------------------------------------------------ claims

\* C1: process_data never raises to its caller: whatever the GET and the POST
\* return, the call completes and returns a sequence.
C1_NeverRaises == pc = "done" => ~result.raised

\* C2: every returned entry's total is the sum of SisaQuota (0 when absent)
\* over all the records of its location's SlotList, emitted or not.
C2_QuotaInvariant ==
  Returns =>
    \A k \in 1..Len(result.value) :
      /\ k <= Len(KeptLocs)
      /\ result.value[k].total = SumQuota(SlotRecords(RawItems[KeptLocs[k]]))

\* C2 witness: an entry was returned whose total exceeds the quota of its
\* emitted slots, so a record without a time value contributed.
C2_Witness ==
  /\ Returns
  /\ \E k \in 1..Len(result.value) :
       result.value[k].total > SumSisa(result.value[k].slots)

\* C3: when process_data returns, the returned entries are exactly the raw
\* locations that have a record with a time value, in order; each has a
\* non-empty slots sequence and every display time is the stripped form of a
\* time value of a record of that location, itself matches, and is not "N/A".
C3_InclusionFilter ==
  Returns =>
    /\ Len(result.value) = Len(KeptLocs)
    /\ \A k \in 1..Len(result.value) :
         k <= Len(KeptLocs) =>
           LET item == RawItems[KeptLocs[k]]
               e == result.value[k]
           IN /\ e.lokasi = Get(item, kLokasi, JStr(NA))
              /\ e.slots # <<>>
              /\ Len(e.slots) = Len(KeptRecs(item))
              /\ \A j \in 1..Len(e.slots) :
                   /\ e.slots[j].waktu # NA
                   /\ IsTime(e.slots[j].waktu)
                   /\ \E i \in 1..Len(SlotRecords(item)) :
                        \E v \in StrValues(SlotRecords(item)[i]) :
                          IsTime(v) /\ e.slots[j].waktu = Strip(v)

\* C3 witness: a location with nonzero quota and no time value was dropped
\* while another location was returned.
C3_Witness ==
  /\ Returns
  /\ result.value # <<>>
  /\ \E i \in 1..Len(RawItems) :
       ~LocHasTime(RawItems[i]) /\ SumQuota(SlotRecords(RawItems[i])) > 0

\* C4 (as claimed): waktu_id is "N/A" exactly when no string value of the
\* record has length 36 and a hyphen, and otherwise is such a value.
C4_IdentIndependent ==
  Returns =>
    \A p \in SlotPairs :
      LET ids == {v \in StrValues(p[2]) : IsIdent(v)}
      IN IF ids = {} THEN p[1].waktu_id = NA ELSE p[1].waktu_id \in ids

\* C4 (amended): waktu_id is "N/A" exactly when no string value of the record
\* has length 36, a hyphen and no timezone marker, and otherwise is such a
\* value.
C4_IdentUnlessTime ==
  Returns =>
    \A p \in SlotPairs :
      LET ids == {v \in StrValues(p[2]) : IsIdent(v) /\ ~IsTime(v)}
      IN IF ids = {} THEN p[1].waktu_id = NA ELSE p[1].waktu_id \in ids

\* C4 witness: a slot got an identifier from a record that also holds a
\* 36-character hyphenated value with a timezone marker.
C4_Witness ==
  /\ Returns
  /\ \E p \in SlotPairs :
       /\ p[1].waktu_id # NA
       /\ \E v \in StrValues(p[2]) : IsIdent(v) /\ IsTime(v)

\* the fields of a record in every iteration order
PermsOf(fs) ==
  {[i \in 1..Len(fs) |-> fs[p[i]]] : p \in Permutations(1..Len(fs))}

\* the returned data with the fields of record j of location i reordered as fs
KeyPos(d, key) == CHOOSE q \in 1..Len(d.m) : d.m[q][1] = key
Reordered(i, j, fs) ==
  [raw EXCEPT !.l[i].m[KeyPos(raw.l[i], kSlotList)][2].l[j].m = fs]

\* the (location, record) positions of the Raw Slot Records of a returned list
SlotListOf(i) == Get(raw.l[i], kSlotList, JNull)
RecordPositions ==
  IF raw.t # "list" THEN {}
  ELSE UNION {{<<i, j>> : j \in {x \in 1..Len(SlotListOf(i).l) : SlotListOf(i).l[x].t = "map"}}
              : i \in {x \in 1..Len(raw.l) :
                         /\ raw.l[x].t = "map"
                         /\ HasKey(raw.l[x], kSlotList)
                         /\ SlotListOf(x).t = "list"}}
RecordAt(ij) == SlotListOf(ij[1]).l[ij[2]]

\* at most one display time and at most one identifier can be found in s
UniqueMatches(s) ==
  /\ Cardinality({Strip(v) : v \in {x \in StrValues(s) : IsTime(x)}}) <= 1
  /\ Cardinality({v \in StrValues(s) : IsIdent(v) /\ ~IsTime(v)}) <= 1

\* C5 (as claimed): reordering the fields of any Raw Slot Record leaves the
\* result of process_data unchanged.
C5_OrderIndependent ==
  PostDone =>
    \A ij \in RecordPositions :
      \A fs \in PermsOf(RecordAt(ij).m) :
        Finished(Normalize(Reordered(ij[1], ij[2], fs))) = result

\* C5 (amended): reordering the fields of a Raw Slot Record that holds at most
\* one distinct display time and at most one distinct identifier leaves the
\* result of process_data unchanged.
C5_OrderIndependentUnique ==
  PostDone =>
    \A ij \in RecordPositions :
      UniqueMatches(RecordAt(ij)) =>
        \A fs \in PermsOf(RecordAt(ij).m) :
          Finished(Normalize(Reordered(ij[1], ij[2], fs))) = result

\* C5 witness: a slot with a time and an identifier was returned from a
\* record of three fields whose identifier precedes its time value.
C5_Witness ==
  /\ Returns
  /\ \E ij \in RecordPositions :
       LET fs == RecordAt(ij).m IN
       /\ UniqueMatches(RecordAt(ij))
       /\ Len(fs) = 3
       /\ \E a, b \in 1..Len(fs) :
            /\ a < b
            /\ fs[a][2].t = "str" /\ IsIdent(fs[a][2].s) /\ ~IsTime(fs[a][2].s)
            /\ fs[b][2].t = "str" /\ IsTime(fs[b][2].s)
  /\ \E p \in SlotPairs : p[1].waktu_id # NA

\* C6: a call whose refresh fails returns an empty sequence after the GET
\* alone and leaves the token absent; a call whose refresh succeeds after
\* such a call stores the fetched token, sends the POST with exactly that
\* token and returns the normalised form of the data of the response.
C6_RecoveryAfterFailedRefresh ==
  /\ (pc = "done" /\ RefreshFailed(lastGet)) =>
       (token = "" /\ result = EmptyResult)
  /\ (pc \in {"post", "done"} /\ RefreshFailed(prevGet) /\ lastGet.kind = "token") =>
       (token = lastGet.token /\ reqs = <<GetReq, PostReq(lastGet.token)>>)
  /\ (pc = "done" /\ RefreshFailed(prevGet) /\ lastGet.kind = "token") =>
       result = Finished(Normalize(ResponseData(body)))

\* C6 witness: the call after a failed refresh refreshed and returned entries.
C6_Witness ==
  /\ pc = "done"
  /\ RefreshFailed(prevGet)
  /\ lastGet.kind = "token"
  /\ ~result.raised
  /\ result.value # <<>>

\* C7: after a call whose POST, sent with a stored token, got a transport
\* exception or a non-JSON body, the stored token is absent.
C7_StaleTokenCleared ==
  (PostDone /\ body.kind \in {"exc", "text"}) => token = ""

\* C8: a call sends at most one GET and at most one POST; a GET is the first
\* request and is sent only when no token was stored; a failed refresh ends
\* the call with an empty sequence and no POST.
C8_BoundedRoundTrips ==
  /\ Len(reqs) <= 2
  /\ Cardinality({i \in 1..Len(reqs) : reqs[i].m = "GET"}) <= 1
  /\ Cardinality({i \in 1..Len(reqs) : reqs[i].m = "POST"}) <= 1
  /\ \A i \in 1..Len(reqs) : reqs[i].m = "GET" => (i = 1 /\ tokenAtCall = "")
  /\ (pc = "done" /\ RefreshFailed(lastGet)) =>
       (reqs = <<GetReq>> /\ result = EmptyResult)

\* C8 witness: a call finished after a GET followed by a POST.
C8_Witness ==
  /\ pc = "done"
  /\ Len(reqs) = 2
  /\ reqs[1].m = "GET"
  /\ reqs[2].m = "POST"

\* C9: get_all_data returns the `data` value only when the body is a JSON
\* object whose `data` is a sequence, and an empty sequence otherwise.
C9_ReturnsSequence ==
  PostDone =>
    raw = IF /\ body.kind = "json"
             /\ body.json.t = "map"
             /\ HasKey(body.json, kData)
             /\ Get(body.json, kData, JNull).t = "list"
          THEN Get(body.json, kData, JNull)
          ELSE JList(<<>>)

\* C10 (as claimed): refresh_token does not change the stored token.
C10_RefreshKeepsToken == [][pc = "get" => token' = token]_vars

\* C10 (amended): refresh_token stores the fetched token and reports success
\* when the page holds one; otherwise it leaves the stored token unchanged and
\* reports failure; it changes nothing else of the Extractor.
C10_RefreshStoresOnSuccess ==
  [][pc = "get" =>
       /\ IF lastGet'.kind = "token"
          THEN token' = lastGet'.token /\ pc' = "post"
          ELSE token' = token /\ pc' = "done"
       /\ calls' = calls]_vars

\* C10 witness: a refresh succeeded on an Extractor without token and the
\* fetched token is stored.
C10_Witness ==
  /\ pc = "post"
  /\ tokenAtCall = ""
  /\ lastGet.kind = "token"
  /\ token = lastGet.token

====
